---- MODULE Spec2Model ----
(***************************************************************************)
(* Model of the link feature (packages/ckeditor5-link/src/link.js): the    *)
(* balloon panel's visibility, the listeners it installs on the DOM        *)
(* document and on the view document, and the handlers of the toolbar      *)
(* buttons, the CTRL+L keystroke, the document click, the render           *)
(* notification and the panel's executeLink / executeUnlink /              *)
(* executeCancel events.                                                   *)
(***************************************************************************)
EXTENDS Integers, Sequences, FiniteSets, TLC

\* ------------------------------------------------------------------------
\* Bounds
\* ------------------------------------------------------------------------

\* Largest number of render listeners the click handler is let install.
MaxRenderListeners == 2

\* ------------------------------------------------------------------------
\* The view tree the selection lives in
\*
\*   root
\*    +- p
\*       +- t1                  text outside any link
\*       +- a   (LinkElement)
\*       |  +- t2               text directly inside a
\*       |  +- strong
\*       |     +- t3            text inside a, one level deeper
\*       +- b   (LinkElement)
\*          +- t4               text directly inside b
\* ------------------------------------------------------------------------

Nodes == {"root", "p", "t1", "a", "t2", "strong", "t3", "b", "t4"}

Parent == [n \in Nodes |->
             CASE n = "root"   -> "null"
               [] n = "p"      -> "root"
               [] n = "t1"     -> "p"
               [] n = "a"      -> "p"
               [] n = "t2"     -> "a"
               [] n = "strong" -> "a"
               [] n = "t3"     -> "strong"
               [] n = "b"      -> "p"
               [] n = "t4"     -> "b"]

Kind == [n \in Nodes |->
           CASE n \in {"a", "b"}                 -> "LinkElement"
             [] n \in {"t1", "t2", "t3", "t4"}   -> "Text"
             [] n = "root"                       -> "RootEditableElement"
             [] OTHER                            -> "ContainerElement"]

LinkElements == {n \in Nodes : Kind[n] = "LinkElement"}

\* Nodes a position can have as its parent: the text nodes, and the link
\* element a itself (a position between a's children).
PositionParents == {"t1", "t2", "t3", "t4", "a"}

\* node.getAncestors(): the ancestors of the node, the node itself excluded,
\* ordered from the root down to the node's parent.
RECURSIVE getAncestors(_)
getAncestors(n) ==
    IF Parent[n] = "null" THEN <<>>
    ELSE Append(getAncestors(Parent[n]), Parent[n])

\* Array.prototype.find with the predicate `ancestor instanceof LinkElement`:
\* the first matching entry in array order, undefined when there is none.
RECURSIVE findLinkElement(_, _)
findLinkElement(arr, i) ==
    IF i > Len(arr) THEN "undefined"
    ELSE IF Kind[arr[i]] = "LinkElement" THEN arr[i]
    ELSE findLinkElement(arr, i + 1)

\* ------------------------------------------------------------------------
\* The view selection
\* ------------------------------------------------------------------------

\* A selection without ranges: getFirstPosition() and getFirstRange() are
\* null, isCollapsed is false, editableElement is null.
NoSelection == [hasRange |-> FALSE, isCollapsed |-> FALSE, parent |-> "null"]

Selections ==
    {NoSelection} \cup
    [hasRange : {TRUE}, isCollapsed : BOOLEAN, parent : PositionParents]

\* selection.getFirstPosition(): "null" or a position, given by its parent.
getFirstPosition(sel) == IF sel.hasRange THEN sel.parent ELSE "null"

\* selection.getFirstRange(), as the pair the DOM range is computed from.
getFirstRange(sel) ==
    IF sel.hasRange
    THEN <<sel.parent, IF sel.isCollapsed THEN "collapsed" ELSE "extended">>
    ELSE <<"null">>

\* selection.editableElement: the root of the first position, null when the
\* selection has no range.
RECURSIVE rootOf(_)
rootOf(n) == IF Parent[n] = "null" THEN n ELSE rootOf(Parent[n])

editableElement(sel) == IF sel.hasRange THEN rootOf(sel.parent) ELSE "null"

\* domConverter.getCorrespondingDomElement( viewElement )
getCorrespondingDomElement(n) ==
    IF n \in Nodes THEN <<"dom", n>> ELSE <<"undefined">>

\* domConverter.viewRangeToDom( viewRange )
viewRangeToDom(range) == <<"domRange">> \o range

\* ------------------------------------------------------------------------
\* Inputs
\* ------------------------------------------------------------------------

Urls == {"http://a.com", "http://b.com"}

\* keyCode of a DOM keydown event: Enter, Esc, L.
KeyCodes == {13, 27, 76}

\* Target of a DOM mouseup event: inside the panel's element, inside the
\* editor's UI element, or anywhere else on the page.
Targets == {"panel", "editor", "elsewhere"}

panelContains(target) == target = "panel"

editorUiContains(target) == target = "editor"

\* ------------------------------------------------------------------------
\* State
\* ------------------------------------------------------------------------

VARIABLES
    isVisible,        \* balloonPanel.view.model.isVisible
    anchor,           \* arguments of the last balloonPanel.view.attachTo()
    docListeners,     \* listeners balloonPanel.view holds on the DOM document
    renderListeners,  \* 'render' listeners the feature holds on viewDocument,
                      \* each given by the parentLink its closure captured
    selection,        \* viewDocument.selection
    isFocused,        \* viewDocument.isFocused
    urlValue,         \* balloonPanel.urlInput.value
    lastEvent,        \* the event handled last, with its inputs
    effects           \* calls made while handling it, in order

vars == <<isVisible, anchor, docListeners, renderListeners, selection,
          isFocused, urlValue, lastEvent, effects>>

\* The part of the state a handler reads and writes, as one record, so that
\* the statements of a handler compose in order.  threw: an exception has
\* propagated out of the handler and the rest of it is skipped.
Cur ==
    [isVisible       |-> isVisible,
     anchor          |-> anchor,
     docListeners    |-> docListeners,
     renderListeners |-> renderListeners,
     isFocused       |-> isFocused,
     effects         |-> <<>>,
     threw           |-> FALSE]

Effect(s, e) == [s EXCEPT !.effects = Append(@, e)]

Throw(s) == [s EXCEPT !.threw = TRUE]

Event(type, key, target, fails) ==
    [type |-> type, key |-> key, target |-> target, fails |-> fails,
     threw |-> FALSE]

\* ------------------------------------------------------------------------
\* Collaborators of the feature: the observable isVisible property, the
\* balloon panel view, the editing view, the command layer
\* ------------------------------------------------------------------------

\* onChangeIsVisible whose hide branch forgets
\* balloonPanel.view.stopListening( document ).
onChangeIsVisible_keepsDocument(s, value) ==
    IF value
    THEN LET s1 == [s EXCEPT !.docListeners = Append(@, "keydown")]
             s2 == Effect(s1, <<"listenTo", "document", "keydown">>)
             s3 == [s2 EXCEPT !.docListeners = Append(@, "mouseup")]
         IN  Effect(s3, <<"listenTo", "document", "mouseup">>)
    ELSE LET s3 == [s EXCEPT !.renderListeners = <<>>]
         IN  Effect(s3, <<"stopListening", "viewDocument">>)

\* onChangeIsVisible whose hide branch forgets
\* this.stopListening( viewDocument ).
onChangeIsVisible_keepsViewDocument(s, value) ==
    IF value
    THEN LET s1 == [s EXCEPT !.docListeners = Append(@, "keydown")]
             s2 == Effect(s1, <<"listenTo", "document", "keydown">>)
             s3 == [s2 EXCEPT !.docListeners = Append(@, "mouseup")]
         IN  Effect(s3, <<"listenTo", "document", "mouseup">>)
    ELSE LET s1 == [s EXCEPT !.docListeners = <<>>]
         IN  Effect(s1, <<"stopListening", "document">>)

\* 'change:isVisible' listener of _createBalloonPanel.  On show: listen to
\* the DOM document's keydown and mouseup.  On hide: the panel view stops
\* listening to the DOM document and the feature stops listening to the
\* view document.
onChangeIsVisible(s, value) ==
    IF value
    THEN LET s1 == [s EXCEPT !.docListeners = Append(@, "keydown")]
             s2 == Effect(s1, <<"listenTo", "document", "keydown">>)
             s3 == [s2 EXCEPT !.docListeners = Append(@, "mouseup")]
         IN  Effect(s3, <<"listenTo", "document", "mouseup">>)
    ELSE LET s1 == [s EXCEPT !.docListeners = <<>>]
             s2 == Effect(s1, <<"stopListening", "document">>)
             s3 == [s2 EXCEPT !.renderListeners = <<>>]
         IN  Effect(s3, <<"stopListening", "viewDocument">>)

\* Observable property assignment: 'change:isVisible' fires only when the
\* value differs from the current one.
setIsVisible(s, value) ==
    IF s.isVisible = value THEN s
    ELSE onChangeIsVisible([s EXCEPT !.isVisible = value], value)

\* balloonPanel.view.hide()
viewHide(s) == setIsVisible(Effect(s, <<"hide">>), FALSE)

\* balloonPanel.view.attachTo( target, limiter ): shows the panel and
\* positions it next to the target.
viewAttachTo(s, target, limiter) ==
    LET s1 == Effect(s, <<"attachTo", target, limiter>>)
        s2 == setIsVisible(s1, TRUE)
    IN  [s2 EXCEPT !.anchor = <<target, limiter>>]

\* editor.editing.view.focus()
viewFocus(s) == [Effect(s, <<"focus">>) EXCEPT !.isFocused = TRUE]

\* balloonPanel.urlInput.view.select()
urlInputSelect(s) == Effect(s, <<"select">>)

\* editor.execute( command, arg ): the command is invoked; when it fails the
\* exception propagates to the caller.
editorExecute(s, command, arg, fails) ==
    LET s1 == Effect(s, <<"execute", command, arg>>)
    IN  IF fails THEN Throw(s1) ELSE s1

\* ------------------------------------------------------------------------
\* link.js
\* ------------------------------------------------------------------------

\* getPositionParentLink that looks at the parent's own parent only.
getPositionParentLink_nearestOnly(position) ==
    IF position = "null" THEN "TypeError"
    ELSE IF Parent[position] \in Nodes /\ Kind[Parent[position]] = "LinkElement"
    THEN Parent[position]
    ELSE "undefined"

\* getPositionParentLink( position ).  Reading position.parent of a null
\* position is a TypeError.
getPositionParentLink(position) ==
    IF position = "null" THEN "TypeError"
    ELSE findLinkElement(getAncestors(position), 1)

\* _hidePanel( options )
_hidePanel(s, focusDocument) ==
    LET s1 == viewHide(s)
    IN  IF focusDocument THEN viewFocus(s1) ELSE s1

\* _closePanelOnClick that does not look at the key code.
_closePanelOnClick_anyKey(s, keyCode) == _hidePanel(s, TRUE)

\* _closePanelOnClick( evt, domEvt )
_closePanelOnClick(s, keyCode) ==
    IF keyCode = 27 THEN _hidePanel(s, TRUE) ELSE s

\* mouseupListener without the early return for a target inside the panel.
mouseupListener_noPanelCheck(s, target) ==
    LET s1 == viewHide(s)
    IN  IF editorUiContains(target) THEN viewFocus(s1) ELSE s1

\* mouseupListener that focuses the view wherever the target is.
mouseupListener_alwaysFocuses(s, target) ==
    IF panelContains(target) THEN s
    ELSE viewFocus(viewHide(s))

\* The 'mouseup' listener installed on show.
mouseupListener(s, target) ==
    IF panelContains(target) THEN s
    ELSE LET s1 == viewHide(s)
         IN  IF editorUiContains(target) THEN viewFocus(s1) ELSE s1

\* _attachPanelToElement that hides the panel before attaching it again.
_attachPanelToElement_hidesFirst(s, sel, parentLink) ==
    LET domEditableElement == getCorrespondingDomElement(editableElement(sel))
        targetLink == IF parentLink # "undefined" THEN parentLink
                      ELSE getPositionParentLink(getFirstPosition(sel))
    IN  IF targetLink = "TypeError" THEN Throw(s)
        ELSE IF targetLink # "undefined"
        THEN viewAttachTo(viewHide(s), getCorrespondingDomElement(targetLink),
                          domEditableElement)
        ELSE viewAttachTo(viewHide(s), viewRangeToDom(getFirstRange(sel)),
                          domEditableElement)

\* _attachPanelToElement that prefers the looked-up link element to the one
\* it is given.
_attachPanelToElement_lookupFirst(s, sel, parentLink) ==
    LET domEditableElement == getCorrespondingDomElement(editableElement(sel))
        found == getPositionParentLink(getFirstPosition(sel))
        targetLink == IF found \notin {"undefined", "TypeError"} THEN found
                      ELSE IF parentLink # "undefined" THEN parentLink
                      ELSE found
    IN  IF targetLink = "TypeError" THEN Throw(s)
        ELSE IF targetLink # "undefined"
        THEN viewAttachTo(s, getCorrespondingDomElement(targetLink),
                          domEditableElement)
        ELSE viewAttachTo(s, viewRangeToDom(getFirstRange(sel)),
                          domEditableElement)

\* _attachPanelToElement( parentLink ); parentLink is "undefined" when the
\* argument is omitted.
_attachPanelToElement(s, sel, parentLink) ==
    LET domEditableElement == getCorrespondingDomElement(editableElement(sel))
        targetLink == IF parentLink # "undefined" THEN parentLink
                      ELSE getPositionParentLink(getFirstPosition(sel))
    IN  IF targetLink = "TypeError" THEN Throw(s)
        ELSE IF targetLink # "undefined"
        THEN viewAttachTo(s, getCorrespondingDomElement(targetLink),
                          domEditableElement)
        ELSE viewAttachTo(s, viewRangeToDom(getFirstRange(sel)),
                          domEditableElement)

\* renderListener with the comparison of the link elements inverted.
renderListener_sameLinkHides(s, sel, parentLink) ==
    LET position == getFirstPosition(sel)
    IN  IF position = "null" THEN s
        ELSE IF ~sel.isCollapsed \/ parentLink = getPositionParentLink(position)
        THEN _hidePanel(s, FALSE)
        ELSE _attachPanelToElement(s, sel, parentLink)

\* renderListener with && in place of ||.
renderListener_bothNeeded(s, sel, parentLink) ==
    LET position == getFirstPosition(sel)
    IN  IF position = "null" THEN s
        ELSE IF ~sel.isCollapsed /\ parentLink # getPositionParentLink(position)
        THEN _hidePanel(s, FALSE)
        ELSE _attachPanelToElement(s, sel, parentLink)

\* renderListener that hides with focusDocument set.
renderListener_focuses(s, sel, parentLink) ==
    LET position == getFirstPosition(sel)
    IN  IF position = "null" THEN s
        ELSE IF ~sel.isCollapsed \/ parentLink # getPositionParentLink(position)
        THEN _hidePanel(s, TRUE)
        ELSE _attachPanelToElement(s, sel, parentLink)

\* The 'render' listener the click handler installs; parentLink is the link
\* element found at the time of the click.
renderListener(s, sel, parentLink) ==
    LET position == getFirstPosition(sel)
    IN  IF position = "null" THEN s
        ELSE IF ~sel.isCollapsed \/ parentLink # getPositionParentLink(position)
        THEN _hidePanel(s, FALSE)
        ELSE _attachPanelToElement(s, sel, parentLink)

\* clickListener that does not test viewSelection.isCollapsed.
clickListener_anySelection(s, sel) ==
    LET parentLink == getPositionParentLink(getFirstPosition(sel))
    IN  IF parentLink = "TypeError" THEN Throw(s)
        ELSE IF parentLink # "undefined"
        THEN LET s1 == _attachPanelToElement(s, sel, "undefined")
                 s2 == [s1 EXCEPT !.renderListeners = Append(@, parentLink)]
             IN  Effect(s2, <<"listenTo", "viewDocument", "render">>)
        ELSE s

\* The 'click' listener on the view document.
clickListener(s, sel) ==
    LET parentLink == getPositionParentLink(getFirstPosition(sel))
    IN  IF parentLink = "TypeError" THEN Throw(s)
        ELSE IF sel.isCollapsed /\ parentLink # "undefined"
        THEN LET s1 == _attachPanelToElement(s, sel, "undefined")
                 s2 == [s1 EXCEPT !.renderListeners = Append(@, parentLink)]
             IN  Effect(s2, <<"listenTo", "viewDocument", "render">>)
        ELSE s

\* linkButtonExecute without the viewDocument.isFocused test.
linkButtonExecute_ignoresFocus(s, sel) ==
    LET s1 == _attachPanelToElement(s, sel, "undefined")
    IN  IF s1.threw THEN s1 ELSE urlInputSelect(s1)

\* 'execute' listener of the toolbar Link button.
linkButtonExecute(s, sel) ==
    IF ~s.isFocused THEN s
    ELSE LET s1 == _attachPanelToElement(s, sel, "undefined")
         IN  IF s1.threw THEN s1 ELSE urlInputSelect(s1)

\* 'execute' listener of the toolbar Unlink button.
unlinkButtonExecute(s, fails) == editorExecute(s, "unlink", "", fails)

\* CTRL+L keystroke callback.
ctrlLKeystroke(s, sel) ==
    LET s1 == _attachPanelToElement(s, sel, "undefined")
    IN  IF s1.threw THEN s1 ELSE urlInputSelect(s1)

\* executeLink that hides the panel before executing the command.
executeLink_hidesFirst(s, url, fails) ==
    LET s1 == _hidePanel(s, TRUE)
    IN  editorExecute(s1, "link", url, fails)

\* 'executeLink' listener of the panel model.
executeLink(s, url, fails) ==
    LET s1 == editorExecute(s, "link", url, fails)
    IN  IF s1.threw THEN s1 ELSE _hidePanel(s1, TRUE)

\* 'executeUnlink' listener of the panel model.
executeUnlink(s, fails) ==
    LET s1 == editorExecute(s, "unlink", "", fails)
    IN  IF s1.threw THEN s1 ELSE _hidePanel(s1, TRUE)

\* executeCancel that runs the unlink command as executeUnlink does.
executeCancel_unlinks(s) ==
    LET s1 == editorExecute(s, "unlink", "", FALSE)
    IN  _hidePanel(s1, TRUE)

\* 'executeCancel' listener of the panel model.
executeCancel(s) == _hidePanel(s, TRUE)

\* ------------------------------------------------------------------------
\* Event delivery: the listeners of an event are called in the order they
\* were added; a listener removed while the event is delivered is not
\* called.
\* ------------------------------------------------------------------------

\* viewDocument.fire( 'render' )
RECURSIVE fireRender(_, _, _)
fireRender(s, sel, i) ==
    IF i > Len(s.renderListeners) THEN s
    ELSE fireRender(renderListener(s, sel, s.renderListeners[i]), sel, i + 1)

\* DOM document 'keydown'
RECURSIVE fireKeydown(_, _, _)
fireKeydown(s, keyCode, i) ==
    IF i > Len(s.docListeners) THEN s
    ELSE IF s.docListeners[i] = "keydown"
    THEN fireKeydown(_closePanelOnClick(s, keyCode), keyCode, i + 1)
    ELSE fireKeydown(s, keyCode, i + 1)

\* DOM document 'mouseup'
RECURSIVE fireMouseup(_, _, _)
fireMouseup(s, target, i) ==
    IF i > Len(s.docListeners) THEN s
    ELSE IF s.docListeners[i] = "mouseup"
    THEN fireMouseup(mouseupListener(s, target), target, i + 1)
    ELSE fireMouseup(s, target, i + 1)

\* ------------------------------------------------------------------------
\* Specification
\* ------------------------------------------------------------------------

Init ==
    /\ isVisible = FALSE
    /\ anchor = <<<<"none">>, <<"none">>>>
    /\ docListeners = <<>>
    /\ renderListeners = <<>>
    /\ selection \in Selections
    /\ isFocused \in BOOLEAN
    /\ urlValue \in Urls
    /\ lastEvent = Event("init", 0, "none", FALSE)
    /\ effects = <<>>

\* The state a handler leaves behind.
Commit(s, ev) ==
    /\ isVisible' = s.isVisible
    /\ anchor' = s.anchor
    /\ docListeners' = s.docListeners
    /\ renderListeners' = s.renderListeners
    /\ isFocused' = s.isFocused
    /\ effects' = s.effects
    /\ lastEvent' = [ev EXCEPT !.threw = s.threw]
    /\ UNCHANGED <<selection, urlValue>>

\* The toolbar Link button is executed.
ToolbarLink ==
    Commit(linkButtonExecute(Cur, selection),
           Event("toolbarLink", 0, "none", FALSE))

\* The toolbar Unlink button is executed.
ToolbarUnlink ==
    \E fails \in BOOLEAN :
        Commit(unlinkButtonExecute(Cur, fails),
               Event("toolbarUnlink", 0, "none", fails))

\* CTRL+L is pressed in the editor.
CtrlL ==
    Commit(ctrlLKeystroke(Cur, selection), Event("ctrlL", 0, "none", FALSE))

\* The view document fires 'click'.
DocumentClick ==
    /\ Len(clickListener(Cur, selection).renderListeners) <= MaxRenderListeners
    /\ Commit(clickListener(Cur, selection),
              Event("click", 0, "none", FALSE))

\* The view document fires 'render'.
Render ==
    Commit(fireRender(Cur, selection, 1), Event("render", 0, "none", FALSE))

\* The panel's form is submitted.
Submit ==
    \E fails \in BOOLEAN :
        Commit(executeLink(Cur, urlValue, fails),
               Event("executeLink", 0, "none", fails))

\* The panel's Unlink button is clicked.
Remove ==
    \E fails \in BOOLEAN :
        Commit(executeUnlink(Cur, fails),
               Event("executeUnlink", 0, "none", fails))

\* The panel's Cancel button is clicked.
Cancel ==
    Commit(executeCancel(Cur), Event("executeCancel", 0, "none", FALSE))

\* A key goes down somewhere in the DOM document.
KeyDown ==
    \E keyCode \in KeyCodes :
        Commit(fireKeydown(Cur, keyCode, 1),
               Event("keydown", keyCode, "none", FALSE))

\* A mouse button is released somewhere in the DOM document.
MouseUp ==
    \E target \in Targets :
        Commit(fireMouseup(Cur, target, 1),
               Event("mouseup", 0, target, FALSE))

\* The selection engine changes the view selection.
SelectionChange ==
    /\ \E sel \in Selections : sel # selection /\ selection' = sel
    /\ lastEvent' = Event("selectionChange", 0, "none", FALSE)
    /\ effects' = <<>>
    /\ UNCHANGED <<isVisible, anchor, docListeners, renderListeners,
                   isFocused, urlValue>>

\* The editing view gains or loses focus by the user's doing.
FocusChange ==
    /\ isFocused' = ~isFocused
    /\ lastEvent' = Event("focusChange", 0, "none", FALSE)
    /\ effects' = <<>>
    /\ UNCHANGED <<isVisible, anchor, docListeners, renderListeners,
                   selection, urlValue>>

\* The user edits the panel's URL field.
UrlInput ==
    /\ \E url \in Urls : url # urlValue /\ urlValue' = url
    /\ lastEvent' = Event("urlInput", 0, "none", FALSE)
    /\ effects' = <<>>
    /\ UNCHANGED <<isVisible, anchor, docListeners, renderListeners,
                   selection, isFocused>>

Next ==
    \/ ToolbarLink
    \/ ToolbarUnlink
    \/ CtrlL
    \/ DocumentClick
    \/ Render
    \/ Submit
    \/ Remove
    \/ Cancel
    \/ KeyDown
    \/ MouseUp
    \/ SelectionChange
    \/ FocusChange
    \/ UrlInput

Spec == Init /\ [][Next]_vars

\* ------------------------------------------------------------------------
\* Type correctness
\* ------------------------------------------------------------------------

TypeOK ==
    /\ isVisible \in BOOLEAN
    /\ docListeners \in Seq({"keydown", "mouseup"})
    /\ renderListeners \in Seq(LinkElements)
    /\ Len(renderListeners) <= MaxRenderListeners
    /\ selection \in Selections
    /\ isFocused \in BOOLEAN
    /\ urlValue \in Urls

\* ------------------------------------------------------------------------
\* Properties
\* ------------------------------------------------------------------------

HasEffect(effs, e) == \E i \in DOMAIN effs : effs[i] = e

CountOf(seq, x) == Cardinality({i \in DOMAIN seq : seq[i] = x})

\* The state a handler can change other than through its inputs.
panelState == <<isVisible, anchor, docListeners, renderListeners, isFocused>>

SelectionLink == getPositionParentLink(getFirstPosition(selection))

\* C1: the panel view holds no listener on the DOM document while the panel
\* is hidden, and exactly one keydown and one mouseup listener while it is
\* shown.
SubscriptionBalance ==
    IF isVisible
    THEN /\ CountOf(docListeners, "keydown") = 1
         /\ CountOf(docListeners, "mouseup") = 1
         /\ Len(docListeners) = 2
    ELSE Len(docListeners) = 0

\* A mouseup outside the panel has hidden it and the listeners are gone.
SubscriptionBalance_Witness ==
    /\ ~isVisible
    /\ lastEvent.type = "mouseup"
    /\ HasEffect(effects, <<"stopListening", "document">>)
    /\ docListeners = <<>>

TrackingAutoHide ==
    [][\A A \in LinkElements :
         ( /\ lastEvent'.type = "render"
           /\ isVisible
           /\ \E i \in DOMAIN renderListeners : renderListeners[i] = A
           /\ selection.hasRange
           /\ (~selection.isCollapsed \/ SelectionLink # A) )
         => /\ ~isVisible'
            /\ docListeners' = <<>>
            /\ renderListeners' = <<>>
      ]_vars

\* A render has hidden the panel with the caret inside the other link b.
TrackingAutoHide_Witness ==
    /\ lastEvent.type = "render"
    /\ ~isVisible
    /\ HasEffect(effects, <<"hide">>)
    /\ selection.isCollapsed
    /\ SelectionLink = "b"

\* C4: the toolbar Link button with the editor focused, or CTRL+L, while the
\* panel is shown leaves it shown and leaves the listeners on the DOM
\* document and on the view document as they were.
IdempotentShow ==
    [][( /\ isVisible
         /\ \/ lastEvent'.type = "toolbarLink" /\ isFocused
            \/ lastEvent'.type = "ctrlL" )
       => /\ isVisible'
          /\ docListeners' = docListeners
          /\ renderListeners' = renderListeners
          /\ \A i \in DOMAIN effects' :
                effects'[i][1] \notin {"listenTo", "stopListening", "hide"}
      ]_vars

\* CTRL+L has attached a panel that was already shown and tracked.
IdempotentShow_Witness ==
    /\ isVisible
    /\ lastEvent.type = "ctrlL"
    /\ ~lastEvent.threw
    /\ \E i \in DOMAIN effects : effects[i][1] = "attachTo"
    /\ ~HasEffect(effects, <<"listenTo", "document", "keydown">>)
    /\ renderListeners # <<>>

\* C5: at most one render listener is installed at any time.
SingleRenderListener == Len(renderListeners) <= 1

\* C6: while the panel is hidden the feature holds no render listener on the
\* view document, and a render delivered then changes nothing.
RenderTeardown ==
    /\ [](~isVisible => renderListeners = <<>>)
    /\ [][(~isVisible /\ lastEvent'.type = "render")
          => UNCHANGED panelState /\ effects' = <<>>]_vars

\* A render has hidden the panel and removed the render listeners itself.
RenderTeardown_Witness ==
    /\ ~isVisible
    /\ lastEvent.type = "render"
    /\ HasEffect(effects, <<"stopListening", "viewDocument">>)
    /\ renderListeners = <<>>

MutationFailureStillHides ==
    [][( /\ isVisible
         /\ lastEvent'.type \in {"executeLink", "executeUnlink"}
         /\ lastEvent'.fails )
       => /\ ~isVisible'
          /\ docListeners' = <<>>
          /\ renderListeners' = <<>>
          /\ HasEffect(effects', <<"focus">>)
      ]_vars

\* C9: a keydown while the panel is shown hides it and focuses the editing
\* view when the key code is 27, and changes nothing otherwise.
EscapeScenario ==
    [][(isVisible /\ lastEvent'.type = "keydown")
       => IF lastEvent'.key = 27
          THEN /\ ~isVisible'
               /\ isFocused'
               /\ HasEffect(effects', <<"focus">>)
          ELSE UNCHANGED panelState /\ effects' = <<>>
      ]_vars

\* Esc has hidden the panel.
EscapeScenario_Witness ==
    /\ lastEvent.type = "keydown"
    /\ lastEvent.key = 27
    /\ ~isVisible
    /\ HasEffect(effects, <<"hide">>)
    /\ HasEffect(effects, <<"focus">>)
    /\ isFocused

\* C10: a mouseup while the panel is shown hides it and focuses the editing
\* view when the target is inside the editor's UI element and not inside the
\* panel's, and changes nothing when the target is inside the panel's.
OutsideClickScenario ==
    [][(isVisible /\ lastEvent'.type = "mouseup")
       => /\ (editorUiContains(lastEvent'.target)
                /\ ~panelContains(lastEvent'.target))
             => /\ ~isVisible'
                /\ isFocused'
                /\ HasEffect(effects', <<"focus">>)
          /\ panelContains(lastEvent'.target)
             => UNCHANGED panelState /\ effects' = <<>>
      ]_vars

\* A mouseup inside the editor has hidden the panel.
OutsideClickScenario_Witness ==
    /\ lastEvent.type = "mouseup"
    /\ lastEvent.target = "editor"
    /\ ~isVisible
    /\ HasEffect(effects, <<"hide">>)
    /\ HasEffect(effects, <<"focus">>)
    /\ isFocused

\* C11: a mouseup while the panel is shown whose target is not inside the
\* panel's element hides the panel, and focuses the editing view exactly
\* when the target is inside the editor's UI element.
ConditionalFocus ==
    [][( /\ isVisible
         /\ lastEvent'.type = "mouseup"
         /\ ~panelContains(lastEvent'.target) )
       => /\ ~isVisible'
          /\ HasEffect(effects', <<"focus">>)
                <=> editorUiContains(lastEvent'.target)
          /\ ~editorUiContains(lastEvent'.target) => isFocused' = isFocused
      ]_vars

\* A mouseup elsewhere on the page has hidden the panel of an unfocused
\* editor and left the focus alone.
ConditionalFocus_Witness ==
    /\ lastEvent.type = "mouseup"
    /\ lastEvent.target = "elsewhere"
    /\ ~isVisible
    /\ HasEffect(effects, <<"hide">>)
    /\ ~HasEffect(effects, <<"focus">>)
    /\ ~isFocused

\* C12: the document click, the toolbar Link button, CTRL+L and the render
\* notification complete without an error, also when the selection has no
\* first position.
LocatorTolerance ==
    lastEvent.type \in {"click", "toolbarLink", "ctrlL", "render"}
        => ~lastEvent.threw

\* C13: the toolbar Link button with the editor focused, or CTRL+L, at a
\* selection with no range and hence no link element completes without an
\* error, sends no attachTo and changes nothing.
AttachNoTarget ==
    [][( /\ ~selection.hasRange
         /\ \/ lastEvent'.type = "toolbarLink" /\ isFocused
            \/ lastEvent'.type = "ctrlL" )
       => /\ ~lastEvent'.threw
          /\ \A i \in DOMAIN effects' : effects'[i][1] # "attachTo"
          /\ UNCHANGED panelState
      ]_vars

InertClick ==
    [][( /\ lastEvent'.type = "click"
         /\ (~selection.isCollapsed \/ SelectionLink \notin LinkElements) )
       => UNCHANGED panelState /\ effects' = <<>>
      ]_vars

\* A click at an extended selection starting inside link a has left the
\* panel hidden.
InertClick_Witness ==
    /\ lastEvent.type = "click"
    /\ ~lastEvent.threw
    /\ ~selection.isCollapsed
    /\ SelectionLink = "a"
    /\ ~isVisible
    /\ renderListeners = <<>>
    /\ effects = <<>>

\* C16: the toolbar Unlink button, its command returning normally, leaves
\* the panel hidden and without listeners.
ToolbarUnlinkHides ==
    [][(lastEvent'.type = "toolbarUnlink" /\ ~lastEvent'.fails)
       => /\ HasEffect(effects', <<"execute", "unlink", "">>)
          /\ ~isVisible'
          /\ docListeners' = <<>>
          /\ renderListeners' = <<>>
      ]_vars

\* The link elements among the ancestors of a position's parent.
LinksAbove(position) ==
    {n \in LinkElements :
        \E i \in DOMAIN getAncestors(position) : getAncestors(position)[i] = n}

\* The target an attach request is to have: the link element given, else the
\* one above the selection's first position, else the first range.
ExpectedTarget(sel, given) ==
    IF given \in LinkElements THEN <<"dom", given>>
    ELSE IF LinksAbove(sel.parent) # {}
    THEN <<"dom", CHOOSE n \in LinksAbove(sel.parent) : TRUE>>
    ELSE <<"domRange", sel.parent,
           IF sel.isCollapsed THEN "collapsed" ELSE "extended">>

LocatorCorrectness ==
    selection.hasRange =>
       LET position == getFirstPosition(selection)
       IN  /\ Cardinality(LinksAbove(position)) = 1
                 => getPositionParentLink(position) \in LinksAbove(position)
           /\ LinksAbove(position) = {}
                 => getPositionParentLink(position) = "undefined"

\* A click two levels below link a has found a and attached the panel to it.
LocatorCorrectness_Witness ==
    /\ lastEvent.type = "click"
    /\ selection.isCollapsed
    /\ selection.parent = "t3"
    /\ getAncestors("t3") = <<"root", "p", "a", "strong">>
    /\ isVisible
    /\ anchor[1] = <<"dom", "a">>
    /\ renderListeners[Len(renderListeners)] = "a"

ExecuteCount(effs) == Cardinality({i \in DOMAIN effs : effs[i][1] = "execute"})

\* C19: a handler executes a command exactly once when it is the panel's
\* submit, the panel's unlink or the toolbar Unlink button, and not at all
\* otherwise; in particular cancel, keydown, mouseup and render execute none.
HidePathsDoNotMutate ==
    [][/\ lastEvent'.type \in {"executeLink", "executeUnlink", "toolbarUnlink"}
             => ExecuteCount(effects') = 1
       /\ lastEvent'.type \notin {"executeLink", "executeUnlink",
                                  "toolbarUnlink"}
             => ExecuteCount(effects') = 0
      ]_vars

\* Cancel has hidden the panel without executing a command.
HidePathsDoNotMutate_Witness ==
    /\ lastEvent.type = "executeCancel"
    /\ ~isVisible
    /\ HasEffect(effects, <<"stopListening", "document">>)
    /\ ExecuteCount(effects) = 0

====
